---- MODULE Spec2Model ----
(***************************************************************************)
(* Model of metrics/core/metrics.go: the metric catalog (descriptor        *)
(* lists, family table, rate mapping), the lookup functions over it and    *)
(* the scalar / labeled extractors attached to the metrics.                *)
(*                                                                         *)
(* A Metric is a record holding the descriptor fields and, for each of the *)
(* four function-valued fields, either Nil or the identity of the function *)
(* literal stored there ("MetricCpuUsage.GetValue").  The operators        *)
(* HasValue, GetValue, HasLabeledMetric and GetLabeledMetric call through  *)
(* such a field.  The Description strings are not modelled.                *)
(***************************************************************************)
EXTENDS Integers, Sequences, FiniteSets, TLC

VARIABLES
    StandardMetrics, AdditionalMetrics, RateMetrics, RateMetricsMapping,
    LabeledMetrics, NodeAutoscalingMetrics,
    CpuMetrics, FilesystemMetrics, MemoryMetrics, NetworkMetrics,
    MetricFamilies, AllMetrics,
    c,      \* the entity (cadvisor.ContainerInfo) handed to the extractors
    stat,   \* the stats snapshot (cadvisor.ContainerStats)
    now,    \* the wall clock read by time.Since, in nanoseconds
    call,   \* the last call made: [op, arg]
    ret     \* what that call returned

catalog == <<StandardMetrics, AdditionalMetrics, RateMetrics, RateMetricsMapping,
             LabeledMetrics, NodeAutoscalingMetrics,
             CpuMetrics, FilesystemMetrics, MemoryMetrics, NetworkMetrics,
             MetricFamilies, AllMetrics>>

vars == <<catalog, c, stat, now, call, ret>>

Nil == "nil"

---------------------------------------------------------------------------
(* Bounds of the model.                                                    *)

\* Width of the Go int64 / uint64 types, scaled down so that every sum the
\* model forms stays inside TLC's 32-bit integers.
IntBits == 24
\* Longest list of interfaces / filesystems / partitions / accelerators.
MaxRecords == 2
\* Number of clock steps the model lets pass.
MaxTicks == 1

---------------------------------------------------------------------------
(* Sequence helpers.                                                       *)

Range(s) == {s[i] : i \in DOMAIN s}

NamesOf(s) == {s[i].Name : i \in DOMAIN s}

SeqsUpTo(S, n) == UNION {[1..k -> S] : k \in 0..n}

RECURSIVE SumSeq(_)
SumSeq(s) == IF s = <<>> THEN 0 ELSE s[1] + SumSeq(Tail(s))

---------------------------------------------------------------------------
(* Label descriptors (declared outside metrics.go).                        *)

LabelResourceID == [Key |-> "resource_id"]
LabelAcceleratorMake == [Key |-> "make"]
LabelAcceleratorModel == [Key |-> "model"]
LabelAcceleratorID == [Key |-> "device id"]

metricLabels == <<LabelResourceID>>
acceleratorLabels == <<LabelAcceleratorMake, LabelAcceleratorModel, LabelAcceleratorID>>
acceleratorCapacityLabels == <<LabelAcceleratorMake, LabelAcceleratorModel>>

---------------------------------------------------------------------------
(* Definition of Standard Metrics.                                         *)

MetricUptime ==
    [Name |-> "uptime", Type |-> "MetricCumulative", ValueType |-> "ValueInt64",
     Units |-> "UnitsMilliseconds", Labels |-> <<>>,
     HasValue |-> "MetricUptime.HasValue", GetValue |-> "MetricUptime.GetValue",
     HasLabeledMetric |-> Nil, GetLabeledMetric |-> Nil]

MetricCpuUsage ==
    [Name |-> "cpu/usage", Type |-> "MetricCumulative", ValueType |-> "ValueInt64",
     Units |-> "UnitsNanoseconds", Labels |-> <<>>,
     HasValue |-> "MetricCpuUsage.HasValue", GetValue |-> "MetricCpuUsage.GetValue",
     HasLabeledMetric |-> Nil, GetLabeledMetric |-> Nil]

MetricMemoryUsage ==
    [Name |-> "memory/usage", Type |-> "MetricGauge", ValueType |-> "ValueInt64",
     Units |-> "UnitsBytes", Labels |-> <<>>,
     HasValue |-> "MetricMemoryUsage.HasValue", GetValue |-> "MetricMemoryUsage.GetValue",
     HasLabeledMetric |-> Nil, GetLabeledMetric |-> Nil]

MetricMemoryCache ==
    [Name |-> "memory/cache", Type |-> "MetricGauge", ValueType |-> "ValueInt64",
     Units |-> "UnitsBytes", Labels |-> <<>>,
     HasValue |-> "MetricMemoryCache.HasValue", GetValue |-> "MetricMemoryCache.GetValue",
     HasLabeledMetric |-> Nil, GetLabeledMetric |-> Nil]

MetricMemoryRSS ==
    [Name |-> "memory/rss", Type |-> "MetricGauge", ValueType |-> "ValueInt64",
     Units |-> "UnitsBytes", Labels |-> <<>>,
     HasValue |-> "MetricMemoryRSS.HasValue", GetValue |-> "MetricMemoryRSS.GetValue",
     HasLabeledMetric |-> Nil, GetLabeledMetric |-> Nil]

MetricMemoryWorkingSet ==
    [Name |-> "memory/working_set", Type |-> "MetricGauge", ValueType |-> "ValueInt64",
     Units |-> "UnitsBytes", Labels |-> <<>>,
     HasValue |-> "MetricMemoryWorkingSet.HasValue",
     GetValue |-> "MetricMemoryWorkingSet.GetValue",
     HasLabeledMetric |-> Nil, GetLabeledMetric |-> Nil]

MetricMemoryPageFaults ==
    [Name |-> "memory/page_faults", Type |-> "MetricCumulative", ValueType |-> "ValueInt64",
     Units |-> "UnitsCount", Labels |-> <<>>,
     HasValue |-> "MetricMemoryPageFaults.HasValue",
     GetValue |-> "MetricMemoryPageFaults.GetValue",
     HasLabeledMetric |-> Nil, GetLabeledMetric |-> Nil]

MetricMemoryMajorPageFaults ==
    [Name |-> "memory/major_page_faults", Type |-> "MetricCumulative",
     ValueType |-> "ValueInt64", Units |-> "UnitsCount", Labels |-> <<>>,
     HasValue |-> "MetricMemoryMajorPageFaults.HasValue",
     GetValue |-> "MetricMemoryMajorPageFaults.GetValue",
     HasLabeledMetric |-> Nil, GetLabeledMetric |-> Nil]

MetricNetworkRx ==
    [Name |-> "network/rx", Type |-> "MetricCumulative", ValueType |-> "ValueInt64",
     Units |-> "UnitsBytes", Labels |-> <<>>,
     HasValue |-> "MetricNetworkRx.HasValue", GetValue |-> "MetricNetworkRx.GetValue",
     HasLabeledMetric |-> Nil, GetLabeledMetric |-> Nil]

MetricNetworkRxErrors ==
    [Name |-> "network/rx_errors", Type |-> "MetricCumulative", ValueType |-> "ValueInt64",
     Units |-> "UnitsCount", Labels |-> <<>>,
     HasValue |-> "MetricNetworkRxErrors.HasValue",
     GetValue |-> "MetricNetworkRxErrors.GetValue",
     HasLabeledMetric |-> Nil, GetLabeledMetric |-> Nil]

MetricNetworkTx ==
    [Name |-> "network/tx", Type |-> "MetricCumulative", ValueType |-> "ValueInt64",
     Units |-> "UnitsBytes", Labels |-> <<>>,
     HasValue |-> "MetricNetworkTx.HasValue", GetValue |-> "MetricNetworkTx.GetValue",
     HasLabeledMetric |-> Nil, GetLabeledMetric |-> Nil]

MetricNetworkTxErrors ==
    [Name |-> "network/tx_errors", Type |-> "MetricCumulative", ValueType |-> "ValueInt64",
     Units |-> "UnitsCount", Labels |-> <<>>,
     HasValue |-> "MetricNetworkTxErrors.HasValue",
     GetValue |-> "MetricNetworkTxErrors.GetValue",
     HasLabeledMetric |-> Nil, GetLabeledMetric |-> Nil]

---------------------------------------------------------------------------
(* Definition of Additional Metrics.                                       *)

MetricCpuRequest ==
    [Name |-> "cpu/request", Type |-> "MetricGauge", ValueType |-> "ValueInt64",
     Units |-> "UnitsCount", Labels |-> <<>>,
     HasValue |-> Nil, GetValue |-> Nil, HasLabeledMetric |-> Nil, GetLabeledMetric |-> Nil]

MetricCpuLimit ==
    [Name |-> "cpu/limit", Type |-> "MetricGauge", ValueType |-> "ValueInt64",
     Units |-> "UnitsCount", Labels |-> <<>>,
     HasValue |-> Nil, GetValue |-> Nil, HasLabeledMetric |-> Nil, GetLabeledMetric |-> Nil]

MetricMemoryRequest ==
    [Name |-> "memory/request", Type |-> "MetricGauge", ValueType |-> "ValueInt64",
     Units |-> "UnitsBytes", Labels |-> <<>>,
     HasValue |-> Nil, GetValue |-> Nil, HasLabeledMetric |-> Nil, GetLabeledMetric |-> Nil]

MetricMemoryLimit ==
    [Name |-> "memory/limit", Type |-> "MetricGauge", ValueType |-> "ValueInt64",
     Units |-> "UnitsBytes", Labels |-> <<>>,
     HasValue |-> Nil, GetValue |-> Nil, HasLabeledMetric |-> Nil, GetLabeledMetric |-> Nil]

---------------------------------------------------------------------------
(* Definition of Rate Metrics.                                             *)

MetricCpuUsageRate ==
    [Name |-> "cpu/usage_rate", Type |-> "MetricGauge", ValueType |-> "ValueInt64",
     Units |-> "UnitsCount", Labels |-> <<>>,
     HasValue |-> Nil, GetValue |-> Nil, HasLabeledMetric |-> Nil, GetLabeledMetric |-> Nil]

MetricMemoryPageFaultsRate ==
    [Name |-> "memory/page_faults_rate", Type |-> "MetricGauge", ValueType |-> "ValueFloat",
     Units |-> "UnitsCount", Labels |-> <<>>,
     HasValue |-> Nil, GetValue |-> Nil, HasLabeledMetric |-> Nil, GetLabeledMetric |-> Nil]

MetricMemoryMajorPageFaultsRate ==
    [Name |-> "memory/major_page_faults_rate", Type |-> "MetricGauge",
     ValueType |-> "ValueFloat", Units |-> "UnitsCount", Labels |-> <<>>,
     HasValue |-> Nil, GetValue |-> Nil, HasLabeledMetric |-> Nil, GetLabeledMetric |-> Nil]

MetricNetworkRxRate ==
    [Name |-> "network/rx_rate", Type |-> "MetricGauge", ValueType |-> "ValueFloat",
     Units |-> "UnitsCount", Labels |-> <<>>,
     HasValue |-> Nil, GetValue |-> Nil, HasLabeledMetric |-> Nil, GetLabeledMetric |-> Nil]

MetricNetworkRxErrorsRate ==
    [Name |-> "network/rx_errors_rate", Type |-> "MetricGauge", ValueType |-> "ValueFloat",
     Units |-> "UnitsCount", Labels |-> <<>>,
     HasValue |-> Nil, GetValue |-> Nil, HasLabeledMetric |-> Nil, GetLabeledMetric |-> Nil]

MetricNetworkTxRate ==
    [Name |-> "network/tx_rate", Type |-> "MetricGauge", ValueType |-> "ValueFloat",
     Units |-> "UnitsCount", Labels |-> <<>>,
     HasValue |-> Nil, GetValue |-> Nil, HasLabeledMetric |-> Nil, GetLabeledMetric |-> Nil]

MetricNetworkTxErrorsRate ==
    [Name |-> "network/tx_errors_rate", Type |-> "MetricGauge", ValueType |-> "ValueFloat",
     Units |-> "UnitsCount", Labels |-> <<>>,
     HasValue |-> Nil, GetValue |-> Nil, HasLabeledMetric |-> Nil, GetLabeledMetric |-> Nil]

---------------------------------------------------------------------------
(* Node autoscaling metrics.                                               *)

MetricNodeCpuCapacity ==
    [Name |-> "cpu/node_capacity", Type |-> "MetricGauge", ValueType |-> "ValueFloat",
     Units |-> "UnitsCount", Labels |-> <<>>,
     HasValue |-> Nil, GetValue |-> Nil, HasLabeledMetric |-> Nil, GetLabeledMetric |-> Nil]

MetricNodeMemoryCapacity ==
    [Name |-> "memory/node_capacity", Type |-> "MetricGauge", ValueType |-> "ValueFloat",
     Units |-> "UnitsCount", Labels |-> <<>>,
     HasValue |-> Nil, GetValue |-> Nil, HasLabeledMetric |-> Nil, GetLabeledMetric |-> Nil]

MetricNodeCpuAllocatable ==
    [Name |-> "cpu/node_allocatable", Type |-> "MetricGauge", ValueType |-> "ValueFloat",
     Units |-> "UnitsCount", Labels |-> <<>>,
     HasValue |-> Nil, GetValue |-> Nil, HasLabeledMetric |-> Nil, GetLabeledMetric |-> Nil]

MetricNodeMemoryAllocatable ==
    [Name |-> "memory/node_allocatable", Type |-> "MetricGauge", ValueType |-> "ValueFloat",
     Units |-> "UnitsCount", Labels |-> <<>>,
     HasValue |-> Nil, GetValue |-> Nil, HasLabeledMetric |-> Nil, GetLabeledMetric |-> Nil]

MetricNodeCpuUtilization ==
    [Name |-> "cpu/node_utilization", Type |-> "MetricGauge", ValueType |-> "ValueFloat",
     Units |-> "UnitsCount", Labels |-> <<>>,
     HasValue |-> Nil, GetValue |-> Nil, HasLabeledMetric |-> Nil, GetLabeledMetric |-> Nil]

MetricNodeMemoryUtilization ==
    [Name |-> "memory/node_utilization", Type |-> "MetricGauge", ValueType |-> "ValueFloat",
     Units |-> "UnitsCount", Labels |-> <<>>,
     HasValue |-> Nil, GetValue |-> Nil, HasLabeledMetric |-> Nil, GetLabeledMetric |-> Nil]

MetricNodeCpuReservation ==
    [Name |-> "cpu/node_reservation", Type |-> "MetricGauge", ValueType |-> "ValueFloat",
     Units |-> "UnitsCount", Labels |-> <<>>,
     HasValue |-> Nil, GetValue |-> Nil, HasLabeledMetric |-> Nil, GetLabeledMetric |-> Nil]

MetricNodeMemoryReservation ==
    [Name |-> "memory/node_reservation", Type |-> "MetricGauge", ValueType |-> "ValueFloat",
     Units |-> "UnitsCount", Labels |-> <<>>,
     HasValue |-> Nil, GetValue |-> Nil, HasLabeledMetric |-> Nil, GetLabeledMetric |-> Nil]

---------------------------------------------------------------------------
(* Labeled metrics.                                                        *)

MetricFilesystemUsage ==
    [Name |-> "filesystem/usage", Type |-> "MetricGauge", ValueType |-> "ValueInt64",
     Units |-> "UnitsBytes", Labels |-> metricLabels,
     HasValue |-> Nil, GetValue |-> Nil,
     HasLabeledMetric |-> "MetricFilesystemUsage.HasLabeledMetric",
     GetLabeledMetric |-> "MetricFilesystemUsage.GetLabeledMetric"]

MetricFilesystemLimit ==
    [Name |-> "filesystem/limit", Type |-> "MetricGauge", ValueType |-> "ValueInt64",
     Units |-> "UnitsBytes", Labels |-> metricLabels,
     HasValue |-> Nil, GetValue |-> Nil,
     HasLabeledMetric |-> "MetricFilesystemLimit.HasLabeledMetric",
     GetLabeledMetric |-> "MetricFilesystemLimit.GetLabeledMetric"]

MetricFilesystemAvailable ==
    [Name |-> "filesystem/available", Type |-> "MetricGauge", ValueType |-> "ValueInt64",
     Units |-> "UnitsBytes", Labels |-> metricLabels,
     HasValue |-> Nil, GetValue |-> Nil, HasLabeledMetric |-> Nil, GetLabeledMetric |-> Nil]

MetricFilesystemInodes ==
    [Name |-> "filesystem/inodes", Type |-> "MetricGauge", ValueType |-> "ValueInt64",
     Units |-> "UnitsBytes", Labels |-> metricLabels,
     HasValue |-> Nil, GetValue |-> Nil,
     HasLabeledMetric |-> "MetricFilesystemInodes.HasLabeledMetric",
     GetLabeledMetric |-> "MetricFilesystemInodes.GetLabeledMetric"]

MetricFilesystemInodesFree ==
    [Name |-> "filesystem/inodes_free", Type |-> "MetricGauge", ValueType |-> "ValueInt64",
     Units |-> "UnitsBytes", Labels |-> metricLabels,
     HasValue |-> Nil, GetValue |-> Nil,
     HasLabeledMetric |-> "MetricFilesystemInodesFree.HasLabeledMetric",
     GetLabeledMetric |-> "MetricFilesystemInodesFree.GetLabeledMetric"]

MetricDiskIORead ==
    [Name |-> "disk/io_read_bytes", Type |-> "MetricCumulative", ValueType |-> "ValueInt64",
     Units |-> "UnitsBytes", Labels |-> metricLabels,
     HasValue |-> Nil, GetValue |-> Nil,
     HasLabeledMetric |-> "MetricDiskIORead.HasLabeledMetric",
     GetLabeledMetric |-> "MetricDiskIORead.GetLabeledMetric"]

MetricDiskIOWrite ==
    [Name |-> "disk/io_write_bytes", Type |-> "MetricCumulative", ValueType |-> "ValueInt64",
     Units |-> "UnitsBytes", Labels |-> metricLabels,
     HasValue |-> Nil, GetValue |-> Nil,
     HasLabeledMetric |-> "MetricDiskIOWrite.HasLabeledMetric",
     GetLabeledMetric |-> "MetricDiskIOWrite.GetLabeledMetric"]

\* A rate metric given an extractor without its predicate.
MetricDiskIOReadRateExtracting ==
    [Name |-> "disk/io_read_bytes_rate", Type |-> "MetricGauge", ValueType |-> "ValueFloat",
     Units |-> "UnitsCount", Labels |-> metricLabels,
     HasValue |-> Nil, GetValue |-> Nil, HasLabeledMetric |-> Nil,
     GetLabeledMetric |-> "MetricDiskIORead.GetLabeledMetric"]

MetricDiskIOReadRate ==
    [Name |-> "disk/io_read_bytes_rate", Type |-> "MetricGauge", ValueType |-> "ValueFloat",
     Units |-> "UnitsCount", Labels |-> metricLabels,
     HasValue |-> Nil, GetValue |-> Nil, HasLabeledMetric |-> Nil, GetLabeledMetric |-> Nil]

MetricDiskIOWriteRate ==
    [Name |-> "disk/io_write_bytes_rate", Type |-> "MetricGauge", ValueType |-> "ValueFloat",
     Units |-> "UnitsCount", Labels |-> metricLabels,
     HasValue |-> Nil, GetValue |-> Nil, HasLabeledMetric |-> Nil, GetLabeledMetric |-> Nil]

MetricAcceleratorMemoryTotal ==
    [Name |-> "accelerator/memory_total", Type |-> "MetricGauge", ValueType |-> "ValueInt64",
     Units |-> "UnitsBytes", Labels |-> acceleratorLabels,
     HasValue |-> Nil, GetValue |-> Nil,
     HasLabeledMetric |-> "MetricAcceleratorMemoryTotal.HasLabeledMetric",
     GetLabeledMetric |-> "MetricAcceleratorMemoryTotal.GetLabeledMetric"]

MetricAcceleratorMemoryUsed ==
    [Name |-> "accelerator/memory_used", Type |-> "MetricGauge", ValueType |-> "ValueInt64",
     Units |-> "UnitsBytes", Labels |-> acceleratorLabels,
     HasValue |-> Nil, GetValue |-> Nil,
     HasLabeledMetric |-> "MetricAcceleratorMemoryUsed.HasLabeledMetric",
     GetLabeledMetric |-> "MetricAcceleratorMemoryUsed.GetLabeledMetric"]

MetricAcceleratorDutyCycle ==
    [Name |-> "accelerator/duty_cycle", Type |-> "MetricGauge", ValueType |-> "ValueInt64",
     Units |-> "UnitsCount", Labels |-> acceleratorLabels,
     HasValue |-> Nil, GetValue |-> Nil,
     HasLabeledMetric |-> "MetricAcceleratorDutyCycle.HasLabeledMetric",
     GetLabeledMetric |-> "MetricAcceleratorDutyCycle.GetLabeledMetric"]

\* Defined, but a member of no list.
MetricNodeAcceleratorCapacity ==
    [Name |-> "accelerator/node_capacity", Type |-> "MetricGauge", ValueType |-> "ValueFloat",
     Units |-> "UnitsCount", Labels |-> acceleratorCapacityLabels,
     HasValue |-> Nil, GetValue |-> Nil, HasLabeledMetric |-> Nil, GetLabeledMetric |-> Nil]

---------------------------------------------------------------------------
(* The catalog: initial values of the package-level lists and maps.        *)

\* Provided by Kubelet/cadvisor.
StandardMetricsDecl ==
    << MetricUptime,
       MetricCpuUsage,
       MetricMemoryCache,
       MetricMemoryRSS,
       MetricMemoryUsage,
       MetricMemoryRSS,
       MetricMemoryCache,
       MetricMemoryWorkingSet,
       MetricMemoryPageFaults,
       MetricMemoryMajorPageFaults,
       MetricNetworkRx,
       MetricNetworkRxErrors,
       MetricNetworkTx,
       MetricNetworkTxErrors >>

\* Metrics computed based on cluster state using Kubernetes API.
AdditionalMetricsDecl ==
    << MetricCpuRequest,
       MetricCpuLimit,
       MetricMemoryRequest,
       MetricMemoryLimit >>

\* Computed based on corresponding StandardMetrics.
RateMetricsDecl ==
    << MetricCpuUsageRate,
       MetricNetworkRxRate,
       MetricNetworkTxRate,
       MetricDiskIOReadRate,
       MetricDiskIOWriteRate >>

\* A Go map literal with non-constant keys: a later pair with the same key
\* replaces an earlier one.
MapLiteral(pairs) ==
    [k \in {pairs[i][1] : i \in DOMAIN pairs} |->
        LET last == CHOOSE i \in DOMAIN pairs :
                        /\ pairs[i][1] = k
                        /\ \A j \in DOMAIN pairs : pairs[j][1] = k => j <= i
        IN  pairs[last][2]]

\* The mapping with one rate metric pasted twice.
RateMetricsMappingDeclPasted ==
    MapLiteral(<< <<MetricCpuUsage.Name, MetricCpuUsageRate>>,
                  <<MetricNetworkRx.Name, MetricNetworkRxRate>>,
                  <<MetricNetworkTx.Name, MetricNetworkRxRate>>,
                  <<MetricDiskIORead.Name, MetricDiskIOReadRate>>,
                  <<MetricDiskIOWrite.Name, MetricDiskIOWriteRate>> >>)

RateMetricsMappingDecl ==
    MapLiteral(<< <<MetricCpuUsage.Name, MetricCpuUsageRate>>,
                  <<MetricNetworkRx.Name, MetricNetworkRxRate>>,
                  <<MetricNetworkTx.Name, MetricNetworkTxRate>>,
                  <<MetricDiskIORead.Name, MetricDiskIOReadRate>>,
                  <<MetricDiskIOWrite.Name, MetricDiskIOWriteRate>> >>)

LabeledMetricsDecl ==
    << MetricDiskIORead,
       MetricDiskIOReadRate,
       MetricDiskIOWrite,
       MetricDiskIOWriteRate,
       MetricFilesystemUsage,
       MetricFilesystemLimit,
       MetricFilesystemAvailable,
       MetricFilesystemInodes,
       MetricFilesystemInodesFree,
       MetricAcceleratorMemoryTotal,
       MetricAcceleratorMemoryUsed,
       MetricAcceleratorDutyCycle >>

NodeAutoscalingMetricsDecl ==
    << MetricNodeCpuCapacity,
       MetricNodeMemoryCapacity,
       MetricNodeCpuAllocatable,
       MetricNodeMemoryAllocatable,
       MetricNodeCpuUtilization,
       MetricNodeMemoryUtilization,
       MetricNodeCpuReservation,
       MetricNodeMemoryReservation >>

\* The CPU family also listing a memory metric.
CpuMetricsDeclOverlapping ==
    << MetricCpuLimit,
       MetricCpuRequest,
       MetricCpuUsage,
       MetricCpuUsageRate,
       MetricNodeCpuAllocatable,
       MetricNodeCpuCapacity,
       MetricNodeCpuReservation,
       MetricNodeCpuUtilization,
       MetricMemoryUsage >>

CpuMetricsDecl ==
    << MetricCpuLimit,
       MetricCpuRequest,
       MetricCpuUsage,
       MetricCpuUsageRate,
       MetricNodeCpuAllocatable,
       MetricNodeCpuCapacity,
       MetricNodeCpuReservation,
       MetricNodeCpuUtilization >>

FilesystemMetricsDecl ==
    << MetricFilesystemAvailable,
       MetricFilesystemLimit,
       MetricFilesystemUsage,
       MetricFilesystemInodes,
       MetricFilesystemInodesFree >>

MemoryMetricsDecl ==
    << MetricMemoryLimit,
       MetricMemoryMajorPageFaults,
       MetricMemoryPageFaults,
       MetricMemoryRequest,
       MetricMemoryUsage,
       MetricMemoryRSS,
       MetricMemoryCache,
       MetricMemoryWorkingSet,
       MetricNodeMemoryAllocatable,
       MetricNodeMemoryCapacity,
       MetricNodeMemoryUtilization,
       MetricNodeMemoryReservation >>

NetworkMetricsDecl ==
    << MetricNetworkRx,
       MetricNetworkRxErrors,
       MetricNetworkRxRate,
       MetricNetworkTx,
       MetricNetworkTxErrors,
       MetricNetworkTxRate >>

MetricFamilyCpu == "cpu"
MetricFamilyFilesystem == "filesystem"
MetricFamilyMemory == "memory"
MetricFamilyNetwork == "network"
MetricFamilyGeneral == "general"

MetricFamiliesDecl ==
    MapLiteral(<< <<MetricFamilyCpu, CpuMetricsDecl>>,
                  <<MetricFamilyFilesystem, FilesystemMetricsDecl>>,
                  <<MetricFamilyMemory, MemoryMetricsDecl>>,
                  <<MetricFamilyNetwork, NetworkMetricsDecl>> >>)

\* The groups appended in another order.
AllMetricsDeclReordered ==
    (((StandardMetricsDecl \o AdditionalMetricsDecl) \o LabeledMetricsDecl)
        \o RateMetricsDecl) \o NodeAutoscalingMetricsDecl

\* append(append(append(append(Standard, Additional...), Rate...), Labeled...),
\*        NodeAutoscaling...): every slice literal is full (len = cap), so each
\* append copies and no operand is aliased.
AllMetricsDecl ==
    (((StandardMetricsDecl \o AdditionalMetricsDecl) \o RateMetricsDecl)
        \o LabeledMetricsDecl) \o NodeAutoscalingMetricsDecl

---------------------------------------------------------------------------
(* Lookups.                                                                *)

\* The orders in which a range statement may visit the keys of a map.
RangeOrders(m) ==
    {o \in [1..Cardinality(DOMAIN m) -> DOMAIN m] : Range(o) = DOMAIN m}

\* MetricFamilyForName, for one visiting order of MetricFamilies.
RECURSIVE ScanFamilies(_, _)
ScanFamilies(order, metricName) ==
    IF order = <<>> THEN MetricFamilyGeneral
    ELSE LET family == Head(order)
             metrics == MetricFamilies[family]
         IN  IF \E i \in DOMAIN metrics : metricName = metrics[i].Name
             THEN family
             ELSE ScanFamilies(Tail(order), metricName)

\* A scan that stops one family early.
MetricFamilyForNameStopsEarly(order, metricName) ==
    ScanFamilies(SubSeq(order, 1, Len(order) - 1), metricName)

MetricFamilyForName(order, metricName) == ScanFamilies(order, metricName)

\* A scan that leaves out the last entry of the list.
IsNodeAutoscalingMetricOffByOne(name) ==
    \E i \in 1..(Len(NodeAutoscalingMetrics) - 1) : NodeAutoscalingMetrics[i].Name = name

IsNodeAutoscalingMetric(name) ==
    \E i \in DOMAIN NodeAutoscalingMetrics : NodeAutoscalingMetrics[i].Name = name

\* m, ok := RateMetricsMapping[name]
RateMetricFor(name) ==
    IF name \in DOMAIN RateMetricsMapping
    THEN [ok |-> TRUE, metric |-> RateMetricsMapping[name]]
    ELSE [ok |-> FALSE, metric |-> Nil]

---------------------------------------------------------------------------
(* Integers and time.                                                      *)

RECURSIVE Pow2(_)
Pow2(n) == IF n = 0 THEN 1 ELSE 2 * Pow2(n - 1)

MaxUint64 == Pow2(IntBits) - 1
MaxInt64 == Pow2(IntBits - 1) - 1
MinInt64 == -Pow2(IntBits - 1)

\* The conversion int64(x) of an unsigned value, and the result of int64
\* arithmetic: x reduced to the two's-complement range.
int64(x) ==
    LET m == x % Pow2(IntBits)
    IN  IF m > MaxInt64 THEN m - Pow2(IntBits) ELSE m

\* Go integer division truncates toward zero.
GoDiv(a, b) == IF a >= 0 THEN a \div b ELSE -((-a) \div b)

\* time.Millisecond.Nanoseconds()
Millisecond == 1000000

\* A time.Time is its distance in nanoseconds from the zero Time.
ZeroTime == 0
IsZero(t) == t = ZeroTime

\* Time.Sub saturates at the largest and smallest Duration.
TimeSub(t, u) ==
    LET d == t - u
    IN  IF d > MaxInt64 THEN MaxInt64 ELSE IF d < MinInt64 THEN MinInt64 ELSE d

\* time.Since(t), reading the clock.
TimeSince(t) == TimeSub(now, t)

\* The clock of the model starts late enough that the zero Time is more than
\* a full Duration away, and advances by steps shorter than a millisecond.
StartNs == Pow2(IntBits - 1) + 2 * Millisecond
TickNs == (3 * Millisecond) \div 5

---------------------------------------------------------------------------
(* The entity.  IsNode lives in metrics/util/metrics: an aggregate entity  *)
(* is a node, an individual one is not.                                    *)

IsNode(info) == info.Kind = "aggregate"

---------------------------------------------------------------------------
(* Scalar extractors.                                                      *)

MetricValue(valueType, metricType, intValue) ==
    [ValueType |-> valueType, MetricType |-> metricType,
     IntValue |-> intValue, FloatValue |-> 0]

MetricUptime_HasValue(spec) == ~IsZero(spec.CreationTime)

MetricUptime_GetValue(info, st) ==
    MetricValue("ValueInt64", "MetricCumulative",
                GoDiv(TimeSince(info.Spec.CreationTime), Millisecond))

MetricCpuUsage_HasValue(spec) == spec.HasCpu

MetricCpuUsage_GetValue(info, st) ==
    MetricValue("ValueInt64", "MetricCumulative",
                IF ~IsNode(info) THEN int64(st.Cpu.Usage.Total) ELSE 0)

MetricMemoryUsage_HasValue(spec) == spec.HasMemory

\* The extractor reading the neighbouring field.
MetricMemoryUsage_GetValueOfCache(info, st) ==
    MetricValue("ValueInt64", "MetricGauge",
                IF ~IsNode(info) THEN int64(st.Memory.Cache) ELSE 0)

MetricMemoryUsage_GetValue(info, st) ==
    MetricValue("ValueInt64", "MetricGauge",
                IF ~IsNode(info) THEN int64(st.Memory.Usage) ELSE 0)

MetricMemoryCache_HasValue(spec) == spec.HasMemory

MetricMemoryCache_GetValue(info, st) ==
    MetricValue("ValueInt64", "MetricGauge",
                IF ~IsNode(info) THEN int64(st.Memory.Cache) ELSE 0)

\* The predicate reading another capability flag.
MetricMemoryRSS_HasValueOfCpu(spec) == spec.HasCpu

MetricMemoryRSS_HasValue(spec) == spec.HasMemory

MetricMemoryRSS_GetValue(info, st) ==
    MetricValue("ValueInt64", "MetricGauge",
                IF ~IsNode(info) THEN int64(st.Memory.RSS) ELSE 0)

MetricMemoryWorkingSet_HasValue(spec) == spec.HasMemory

MetricMemoryWorkingSet_GetValue(info, st) ==
    MetricValue("ValueInt64", "MetricGauge",
                IF ~IsNode(info) THEN int64(st.Memory.WorkingSet) ELSE 0)

MetricMemoryPageFaults_HasValue(spec) == spec.HasMemory

MetricMemoryPageFaults_GetValue(info, st) ==
    MetricValue("ValueInt64", "MetricCumulative",
                IF ~IsNode(info) THEN int64(st.Memory.ContainerData.Pgfault) ELSE 0)

MetricMemoryMajorPageFaults_HasValue(spec) == spec.HasMemory

MetricMemoryMajorPageFaults_GetValue(info, st) ==
    MetricValue("ValueInt64", "MetricCumulative",
                IF ~IsNode(info) THEN int64(st.Memory.ContainerData.Pgmajfault) ELSE 0)

\* var total int64 = 0; for ... { total += int64(interfaceStat.<field>) }
RECURSIVE SumInterfaces(_, _)
SumInterfaces(interfaces, field) ==
    IF interfaces = <<>> THEN 0
    ELSE int64(SumInterfaces(SubSeq(interfaces, 1, Len(interfaces) - 1), field)
               + int64(interfaces[Len(interfaces)][field]))

MetricNetworkRx_HasValue(spec) == spec.HasNetwork

\* The extractor without the node check.
MetricNetworkRx_GetValueUngated(info, st) ==
    LET rxBytes == SumInterfaces(st.Network.Interfaces, "RxBytes")
    IN  MetricValue("ValueInt64", "MetricCumulative", rxBytes)

MetricNetworkRx_GetValue(info, st) ==
    LET rxBytes == SumInterfaces(st.Network.Interfaces, "RxBytes")
    IN  MetricValue("ValueInt64", "MetricCumulative",
                    IF ~IsNode(info) THEN rxBytes ELSE 0)

MetricNetworkRxErrors_HasValue(spec) == spec.HasNetwork

MetricNetworkRxErrors_GetValue(info, st) ==
    LET rxErrors == SumInterfaces(st.Network.Interfaces, "RxErrors")
    IN  MetricValue("ValueInt64", "MetricCumulative",
                    IF ~IsNode(info) THEN rxErrors ELSE 0)

MetricNetworkTx_HasValue(spec) == spec.HasNetwork

MetricNetworkTx_GetValue(info, st) ==
    LET txBytes == SumInterfaces(st.Network.Interfaces, "TxBytes")
    IN  MetricValue("ValueInt64", "MetricCumulative",
                    IF ~IsNode(info) THEN txBytes ELSE 0)

MetricNetworkTxErrors_HasValue(spec) == spec.HasNetwork

MetricNetworkTxErrors_GetValue(info, st) ==
    LET txErrors == SumInterfaces(st.Network.Interfaces, "TxErrors")
    IN  MetricValue("ValueInt64", "MetricCumulative",
                    IF ~IsNode(info) THEN txErrors ELSE 0)

\* m.HasValue(spec), for a metric whose HasValue is not nil.
HasValue(m, spec) ==
    CASE m.HasValue = "MetricUptime.HasValue" -> MetricUptime_HasValue(spec)
      [] m.HasValue = "MetricCpuUsage.HasValue" -> MetricCpuUsage_HasValue(spec)
      [] m.HasValue = "MetricMemoryUsage.HasValue" -> MetricMemoryUsage_HasValue(spec)
      [] m.HasValue = "MetricMemoryCache.HasValue" -> MetricMemoryCache_HasValue(spec)
      [] m.HasValue = "MetricMemoryRSS.HasValue" -> MetricMemoryRSS_HasValue(spec)
      [] m.HasValue = "MetricMemoryWorkingSet.HasValue" ->
             MetricMemoryWorkingSet_HasValue(spec)
      [] m.HasValue = "MetricMemoryPageFaults.HasValue" ->
             MetricMemoryPageFaults_HasValue(spec)
      [] m.HasValue = "MetricMemoryMajorPageFaults.HasValue" ->
             MetricMemoryMajorPageFaults_HasValue(spec)
      [] m.HasValue = "MetricNetworkRx.HasValue" -> MetricNetworkRx_HasValue(spec)
      [] m.HasValue = "MetricNetworkRxErrors.HasValue" ->
             MetricNetworkRxErrors_HasValue(spec)
      [] m.HasValue = "MetricNetworkTx.HasValue" -> MetricNetworkTx_HasValue(spec)
      [] m.HasValue = "MetricNetworkTxErrors.HasValue" ->
             MetricNetworkTxErrors_HasValue(spec)

\* m.GetValue(info, st), for a metric whose GetValue is not nil.
GetValue(m, info, st) ==
    CASE m.GetValue = "MetricUptime.GetValue" -> MetricUptime_GetValue(info, st)
      [] m.GetValue = "MetricCpuUsage.GetValue" -> MetricCpuUsage_GetValue(info, st)
      [] m.GetValue = "MetricMemoryUsage.GetValue" -> MetricMemoryUsage_GetValue(info, st)
      [] m.GetValue = "MetricMemoryCache.GetValue" -> MetricMemoryCache_GetValue(info, st)
      [] m.GetValue = "MetricMemoryRSS.GetValue" -> MetricMemoryRSS_GetValue(info, st)
      [] m.GetValue = "MetricMemoryWorkingSet.GetValue" ->
             MetricMemoryWorkingSet_GetValue(info, st)
      [] m.GetValue = "MetricMemoryPageFaults.GetValue" ->
             MetricMemoryPageFaults_GetValue(info, st)
      [] m.GetValue = "MetricMemoryMajorPageFaults.GetValue" ->
             MetricMemoryMajorPageFaults_GetValue(info, st)
      [] m.GetValue = "MetricNetworkRx.GetValue" -> MetricNetworkRx_GetValue(info, st)
      [] m.GetValue = "MetricNetworkRxErrors.GetValue" ->
             MetricNetworkRxErrors_GetValue(info, st)
      [] m.GetValue = "MetricNetworkTx.GetValue" -> MetricNetworkTx_GetValue(info, st)
      [] m.GetValue = "MetricNetworkTxErrors.GetValue" ->
             MetricNetworkTxErrors_GetValue(info, st)

---------------------------------------------------------------------------
(* Labeled extractors.                                                     *)

LabeledMetric(name, labels, metricValue) ==
    [Name |-> name, Labels |-> labels, MetricValue |-> metricValue]

Digit(d) ==
    CASE d = 0 -> "0" [] d = 1 -> "1" [] d = 2 -> "2" [] d = 3 -> "3" [] d = 4 -> "4"
      [] d = 5 -> "5" [] d = 6 -> "6" [] d = 7 -> "7" [] d = 8 -> "8" [] d = 9 -> "9"

\* The verb %d applied to an unsigned integer: its decimal digits.
RECURSIVE FormatUint(_)
FormatUint(n) ==
    IF n < 10 THEN Digit(n) ELSE FormatUint(n \div 10) \o Digit(n % 10)

\* The two arguments of the format in the other order.
SprintfMinorMajor(major, minor) == FormatUint(minor) \o ":" \o FormatUint(major)

\* fmt.Sprintf("%d:%d", major, minor)
SprintfMajorMinor(major, minor) == FormatUint(major) \o ":" \o FormatUint(minor)

\* resourceIDKey of one partition record.
ResourceIDKey(partition) ==
    IF partition.Device = ""
    THEN SprintfMajorMinor(partition.Major, partition.Minor)
    ELSE partition.Device

\* var value uint64; if v, exists := stats[key]; exists { value = v }
StatsValue(stats, key) == IF key \in DOMAIN stats THEN stats[key] ELSE 0

MetricFilesystemUsage_HasLabeledMetric(spec, st) == spec.HasFilesystem

MetricFilesystemUsage_GetLabeledMetric(info, st) ==
    [i \in 1..Len(st.Filesystem) |->
        LET fs == st.Filesystem[i]
        IN  LabeledMetric("filesystem/usage",
                          [k \in {LabelResourceID.Key} |-> fs.Device],
                          MetricValue("ValueInt64", "MetricGauge", int64(fs.Usage)))]

MetricFilesystemLimit_HasLabeledMetric(spec, st) == spec.HasFilesystem

MetricFilesystemLimit_GetLabeledMetric(info, st) ==
    [i \in 1..Len(st.Filesystem) |->
        LET fs == st.Filesystem[i]
        IN  LabeledMetric("filesystem/limit",
                          [k \in {LabelResourceID.Key} |-> fs.Device],
                          MetricValue("ValueInt64", "MetricGauge", int64(fs.Limit)))]

HasInodes(fs) == fs.HasInodes

MetricFilesystemInodes_HasLabeledMetric(spec, st) == spec.HasFilesystem

\* The extractor without the HasInodes test.
MetricFilesystemInodes_GetLabeledMetricUnfiltered(info, st) ==
    [i \in 1..Len(st.Filesystem) |->
        LET fs == st.Filesystem[i]
        IN  LabeledMetric("filesystem/inodes",
                          [k \in {LabelResourceID.Key} |-> fs.Device],
                          MetricValue("ValueInt64", "MetricGauge", int64(fs.Inodes)))]

MetricFilesystemInodes_GetLabeledMetric(info, st) ==
    LET withInodes == SelectSeq(st.Filesystem, HasInodes)
    IN  [i \in 1..Len(withInodes) |->
            LET fs == withInodes[i]
            IN  LabeledMetric("filesystem/inodes",
                              [k \in {LabelResourceID.Key} |-> fs.Device],
                              MetricValue("ValueInt64", "MetricGauge", int64(fs.Inodes)))]

MetricFilesystemInodesFree_HasLabeledMetric(spec, st) == spec.HasFilesystem

MetricFilesystemInodesFree_GetLabeledMetric(info, st) ==
    LET withInodes == SelectSeq(st.Filesystem, HasInodes)
    IN  [i \in 1..Len(withInodes) |->
            LET fs == withInodes[i]
            IN  LabeledMetric("filesystem/inodes_free",
                              [k \in {LabelResourceID.Key} |-> fs.Device],
                              MetricValue("ValueInt64", "MetricGauge",
                                          int64(fs.InodesFree)))]

MetricDiskIORead_HasLabeledMetric(spec, st) == spec.HasDiskIo

\* The read extractor looking up the write counter.
MetricDiskIORead_GetLabeledMetricOfWrite(info, st) ==
    [i \in 1..Len(st.DiskIo.IoServiceBytes) |->
        LET ioServiceBytesPerPartition == st.DiskIo.IoServiceBytes[i]
            resourceIDKey == ResourceIDKey(ioServiceBytesPerPartition)
            value == StatsValue(ioServiceBytesPerPartition.Stats, "Write")
        IN  LabeledMetric("disk/io_read_bytes",
                          [k \in {LabelResourceID.Key} |-> resourceIDKey],
                          MetricValue("ValueInt64", "MetricGauge", int64(value)))]

MetricDiskIORead_GetLabeledMetric(info, st) ==
    [i \in 1..Len(st.DiskIo.IoServiceBytes) |->
        LET ioServiceBytesPerPartition == st.DiskIo.IoServiceBytes[i]
            resourceIDKey == ResourceIDKey(ioServiceBytesPerPartition)
            value == StatsValue(ioServiceBytesPerPartition.Stats, "Read")
        IN  LabeledMetric("disk/io_read_bytes",
                          [k \in {LabelResourceID.Key} |-> resourceIDKey],
                          MetricValue("ValueInt64", "MetricGauge", int64(value)))]

MetricDiskIOWrite_HasLabeledMetric(spec, st) == spec.HasDiskIo

MetricDiskIOWrite_GetLabeledMetric(info, st) ==
    [i \in 1..Len(st.DiskIo.IoServiceBytes) |->
        LET ioServiceBytesPerPartition == st.DiskIo.IoServiceBytes[i]
            resourceIDKey == ResourceIDKey(ioServiceBytesPerPartition)
            value == StatsValue(ioServiceBytesPerPartition.Stats, "Write")
        IN  LabeledMetric("disk/io_write_bytes",
                          [k \in {LabelResourceID.Key} |-> resourceIDKey],
                          MetricValue("ValueInt64", "MetricGauge", int64(value)))]

AcceleratorLabelValues(ac) ==
    [k \in {LabelAcceleratorMake.Key, LabelAcceleratorModel.Key, LabelAcceleratorID.Key} |->
        CASE k = LabelAcceleratorMake.Key -> ac.Make
          [] k = LabelAcceleratorModel.Key -> ac.Model
          [] k = LabelAcceleratorID.Key -> ac.ID]

MetricAcceleratorMemoryTotal_HasLabeledMetric(spec, st) ==
    IF Len(st.Accelerators) = 0 THEN FALSE ELSE TRUE

MetricAcceleratorMemoryTotal_GetLabeledMetric(info, st) ==
    [i \in 1..Len(st.Accelerators) |->
        LET ac == st.Accelerators[i]
        IN  LabeledMetric("accelerator/memory_total", AcceleratorLabelValues(ac),
                          MetricValue("ValueInt64", "MetricGauge", int64(ac.MemoryTotal)))]

MetricAcceleratorMemoryUsed_HasLabeledMetric(spec, st) ==
    IF Len(st.Accelerators) = 0 THEN FALSE ELSE TRUE

MetricAcceleratorMemoryUsed_GetLabeledMetric(info, st) ==
    [i \in 1..Len(st.Accelerators) |->
        LET ac == st.Accelerators[i]
        IN  LabeledMetric("accelerator/memory_used", AcceleratorLabelValues(ac),
                          MetricValue("ValueInt64", "MetricGauge", int64(ac.MemoryUsed)))]

\* The predicate gated on a capability flag as the disk metrics' is.
MetricAcceleratorDutyCycle_HasLabeledMetricGated(spec, st) ==
    IF ~spec.HasDiskIo \/ Len(st.Accelerators) = 0 THEN FALSE ELSE TRUE

MetricAcceleratorDutyCycle_HasLabeledMetric(spec, st) ==
    IF Len(st.Accelerators) = 0 THEN FALSE ELSE TRUE

MetricAcceleratorDutyCycle_GetLabeledMetric(info, st) ==
    [i \in 1..Len(st.Accelerators) |->
        LET ac == st.Accelerators[i]
        IN  LabeledMetric("accelerator/duty_cycle", AcceleratorLabelValues(ac),
                          MetricValue("ValueInt64", "MetricGauge", int64(ac.DutyCycle)))]

\* m.HasLabeledMetric(spec, st), for a metric whose HasLabeledMetric is not nil.
HasLabeledMetric(m, spec, st) ==
    CASE m.HasLabeledMetric = "MetricFilesystemUsage.HasLabeledMetric" ->
             MetricFilesystemUsage_HasLabeledMetric(spec, st)
      [] m.HasLabeledMetric = "MetricFilesystemLimit.HasLabeledMetric" ->
             MetricFilesystemLimit_HasLabeledMetric(spec, st)
      [] m.HasLabeledMetric = "MetricFilesystemInodes.HasLabeledMetric" ->
             MetricFilesystemInodes_HasLabeledMetric(spec, st)
      [] m.HasLabeledMetric = "MetricFilesystemInodesFree.HasLabeledMetric" ->
             MetricFilesystemInodesFree_HasLabeledMetric(spec, st)
      [] m.HasLabeledMetric = "MetricDiskIORead.HasLabeledMetric" ->
             MetricDiskIORead_HasLabeledMetric(spec, st)
      [] m.HasLabeledMetric = "MetricDiskIOWrite.HasLabeledMetric" ->
             MetricDiskIOWrite_HasLabeledMetric(spec, st)
      [] m.HasLabeledMetric = "MetricAcceleratorMemoryTotal.HasLabeledMetric" ->
             MetricAcceleratorMemoryTotal_HasLabeledMetric(spec, st)
      [] m.HasLabeledMetric = "MetricAcceleratorMemoryUsed.HasLabeledMetric" ->
             MetricAcceleratorMemoryUsed_HasLabeledMetric(spec, st)
      [] m.HasLabeledMetric = "MetricAcceleratorDutyCycle.HasLabeledMetric" ->
             MetricAcceleratorDutyCycle_HasLabeledMetric(spec, st)

\* m.GetLabeledMetric(info, st), for a metric whose GetLabeledMetric is not nil.
GetLabeledMetric(m, info, st) ==
    CASE m.GetLabeledMetric = "MetricFilesystemUsage.GetLabeledMetric" ->
             MetricFilesystemUsage_GetLabeledMetric(info, st)
      [] m.GetLabeledMetric = "MetricFilesystemLimit.GetLabeledMetric" ->
             MetricFilesystemLimit_GetLabeledMetric(info, st)
      [] m.GetLabeledMetric = "MetricFilesystemInodes.GetLabeledMetric" ->
             MetricFilesystemInodes_GetLabeledMetric(info, st)
      [] m.GetLabeledMetric = "MetricFilesystemInodesFree.GetLabeledMetric" ->
             MetricFilesystemInodesFree_GetLabeledMetric(info, st)
      [] m.GetLabeledMetric = "MetricDiskIORead.GetLabeledMetric" ->
             MetricDiskIORead_GetLabeledMetric(info, st)
      [] m.GetLabeledMetric = "MetricDiskIOWrite.GetLabeledMetric" ->
             MetricDiskIOWrite_GetLabeledMetric(info, st)
      [] m.GetLabeledMetric = "MetricAcceleratorMemoryTotal.GetLabeledMetric" ->
             MetricAcceleratorMemoryTotal_GetLabeledMetric(info, st)
      [] m.GetLabeledMetric = "MetricAcceleratorMemoryUsed.GetLabeledMetric" ->
             MetricAcceleratorMemoryUsed_GetLabeledMetric(info, st)
      [] m.GetLabeledMetric = "MetricAcceleratorDutyCycle.GetLabeledMetric" ->
             MetricAcceleratorDutyCycle_GetLabeledMetric(info, st)

---------------------------------------------------------------------------
(* Inputs: the entities and snapshots the extractors are applied to.       *)

ZeroSpec ==
    [CreationTime |-> ZeroTime, HasCpu |-> FALSE, HasMemory |-> FALSE,
     HasNetwork |-> FALSE, HasFilesystem |-> FALSE, HasDiskIo |-> FALSE]

ZeroStats ==
    [Cpu |-> [Usage |-> [Total |-> 0]],
     Memory |-> [Usage |-> 0, Cache |-> 0, RSS |-> 0, WorkingSet |-> 0,
                 ContainerData |-> [Pgfault |-> 0, Pgmajfault |-> 0]],
     Network |-> [Interfaces |-> <<>>],
     Filesystem |-> <<>>,
     DiskIo |-> [IoServiceBytes |-> <<>>],
     Accelerators |-> <<>>]

Kinds == {"individual", "aggregate"}

\* Non-zero raw counter values: small ones, and the two ends of the upper
\* half of the unsigned range.
RawValues == {1048576, MaxInt64 + 1, MaxUint64}

\* The declared capabilities of the scalar specification: none, each one
\* alone, and all three.
CapabilitySets ==
    {caps \in SUBSET {"cpu", "memory", "network"} : Cardinality(caps) /= 2}

CreationTimes == {ZeroTime, StartNs - (3 * Millisecond) \div 2}

InterfaceSamples ==
    { [Name |-> "eth0", RxBytes |-> 1, RxErrors |-> 2, TxBytes |-> 3, TxErrors |-> 4],
      [Name |-> "cni0", RxBytes |-> MaxInt64, RxErrors |-> MaxInt64 + 1,
       TxBytes |-> MaxUint64, TxErrors |-> MaxInt64 - 1] }

\* A snapshot with every scalar field set, each to a different value.
BusyStats ==
    [ZeroStats EXCEPT
        !.Cpu.Usage.Total = 11, !.Memory.Usage = 12, !.Memory.Cache = 13,
        !.Memory.RSS = 14, !.Memory.WorkingSet = 15,
        !.Memory.ContainerData.Pgfault = 16, !.Memory.ContainerData.Pgmajfault = 17,
        !.Network.Interfaces =
            << [Name |-> "eth0", RxBytes |-> 18, RxErrors |-> 19,
                TxBytes |-> 20, TxErrors |-> 21] >>]

\* The snapshots of the scalar specification: the zero snapshot, the busy
\* one, and every snapshot that differs from zero in one scalar field or in
\* the interface list.
ScalarStats ==
    {ZeroStats, BusyStats}
    \cup {[ZeroStats EXCEPT !.Cpu.Usage.Total = v] : v \in RawValues}
    \cup {[ZeroStats EXCEPT !.Memory.Usage = v] : v \in RawValues}
    \cup {[ZeroStats EXCEPT !.Memory.Cache = v] : v \in RawValues}
    \cup {[ZeroStats EXCEPT !.Memory.RSS = v] : v \in RawValues}
    \cup {[ZeroStats EXCEPT !.Memory.WorkingSet = v] : v \in RawValues}
    \cup {[ZeroStats EXCEPT !.Memory.ContainerData.Pgfault = v] : v \in RawValues}
    \cup {[ZeroStats EXCEPT !.Memory.ContainerData.Pgmajfault = v] : v \in RawValues}
    \cup {[ZeroStats EXCEPT !.Network.Interfaces = ifs] :
             ifs \in SeqsUpTo(InterfaceSamples, MaxRecords)}

FilesystemSamples ==
    { [Device |-> "/dev/sda1", Usage |-> 1048576, Limit |-> 2097152,
       HasInodes |-> TRUE, Inodes |-> 1000, InodesFree |-> 400],
      [Device |-> "tmpfs", Usage |-> 5, Limit |-> 6,
       HasInodes |-> FALSE, Inodes |-> 7, InodesFree |-> 8],
      [Device |-> "/dev/sdb1", Usage |-> MaxInt64 + 1, Limit |-> MaxUint64,
       HasInodes |-> TRUE, Inodes |-> MaxUint64 - 1, InodesFree |-> MaxInt64] }

DiskSamples ==
    { [Device |-> "", Major |-> 8, Minor |-> 1, Stats |-> ("Write" :> 500)],
      [Device |-> "sda", Major |-> 8, Minor |-> 0,
       Stats |-> ("Read" :> 300 @@ "Write" :> 700 @@ "Sync" :> 40 @@ "Total" :> 1000)],
      [Device |-> "", Major |-> 253, Minor |-> 16, Stats |-> ("Read" :> MaxInt64 + 1)],
      [Device |-> "dm-0", Major |-> 253, Minor |-> 0, Stats |-> << >>] }

AcceleratorSamples ==
    { [Make |-> "nvidia", Model |-> "tesla-k80", ID |-> "GPU-0",
       MemoryTotal |-> 4096, MemoryUsed |-> 1024, DutyCycle |-> 50],
      [Make |-> "nvidia", Model |-> "tesla-p100", ID |-> "GPU-1",
       MemoryTotal |-> MaxUint64, MemoryUsed |-> MaxInt64 + 1, DutyCycle |-> 0] }

\* The snapshots of the labeled specification: one kind of per-instance
\* record populated at a time.
LabeledStats ==
    {[ZeroStats EXCEPT !.Filesystem = l] : l \in SeqsUpTo(FilesystemSamples, MaxRecords)}
    \cup {[ZeroStats EXCEPT !.DiskIo.IoServiceBytes = l] :
             l \in SeqsUpTo(DiskSamples, MaxRecords)}
    \cup {[ZeroStats EXCEPT !.Accelerators = l] :
             l \in SeqsUpTo(AcceleratorSamples, MaxRecords)}

\* A snapshot with every part populated.
FullStats ==
    [BusyStats EXCEPT
        !.Filesystem =
            << [Device |-> "/dev/sda1", Usage |-> 1048576, Limit |-> 2097152,
                HasInodes |-> TRUE, Inodes |-> 1000, InodesFree |-> 400],
               [Device |-> "tmpfs", Usage |-> 5, Limit |-> 6,
                HasInodes |-> FALSE, Inodes |-> 7, InodesFree |-> 8] >>,
        !.DiskIo.IoServiceBytes =
            << [Device |-> "sda", Major |-> 8, Minor |-> 0,
                Stats |-> ("Read" :> 300 @@ "Write" :> 700 @@ "Sync" :> 40
                           @@ "Total" :> 1000)],
               [Device |-> "", Major |-> 8, Minor |-> 1, Stats |-> ("Write" :> 500)] >>,
        !.Accelerators =
            << [Make |-> "nvidia", Model |-> "tesla-k80", ID |-> "GPU-0",
                MemoryTotal |-> 4096, MemoryUsed |-> 1024, DutyCycle |-> 50] >>]

\* Every metric variable of the package.
DefinedMetrics ==
    Range(AllMetricsDecl) \cup Range(CpuMetricsDecl) \cup Range(FilesystemMetricsDecl)
    \cup Range(MemoryMetricsDecl) \cup Range(NetworkMetricsDecl)
    \cup {MetricMemoryPageFaultsRate, MetricMemoryMajorPageFaultsRate,
          MetricNetworkRxErrorsRate, MetricNetworkTxErrorsRate,
          MetricNodeAcceleratorCapacity}

\* The names the lookups are asked about: every defined metric's and some
\* that belong to no metric.
LookupNames ==
    {m.Name : m \in DefinedMetrics} \cup {"", "custom/requests", "cpu", "memory/usage/"}

---------------------------------------------------------------------------
(* Initial states.                                                         *)

InitCatalog ==
    /\ StandardMetrics = StandardMetricsDecl
    /\ AdditionalMetrics = AdditionalMetricsDecl
    /\ RateMetrics = RateMetricsDecl
    /\ RateMetricsMapping = RateMetricsMappingDecl
    /\ LabeledMetrics = LabeledMetricsDecl
    /\ NodeAutoscalingMetrics = NodeAutoscalingMetricsDecl
    /\ CpuMetrics = CpuMetricsDecl
    /\ FilesystemMetrics = FilesystemMetricsDecl
    /\ MemoryMetrics = MemoryMetricsDecl
    /\ NetworkMetrics = NetworkMetricsDecl
    /\ MetricFamilies = MetricFamiliesDecl
    /\ AllMetrics = AllMetricsDecl

NoCall == [op |-> "none", arg |-> ""]

\* Lookups only: no entity is examined.
Init ==
    /\ InitCatalog
    /\ c = [Kind |-> "individual", Spec |-> ZeroSpec]
    /\ stat = ZeroStats
    /\ now = StartNs
    /\ call = NoCall
    /\ ret = Nil

InitScalar ==
    /\ InitCatalog
    /\ c \in {[Kind |-> k,
               Spec |-> [ZeroSpec EXCEPT !.CreationTime = t,
                                         !.HasCpu = "cpu" \in caps,
                                         !.HasMemory = "memory" \in caps,
                                         !.HasNetwork = "network" \in caps]] :
                 k \in Kinds, t \in CreationTimes, caps \in CapabilitySets}
    /\ stat \in ScalarStats
    /\ now = StartNs
    /\ call = NoCall
    /\ ret = Nil

\* Every operation applied to one fully populated entity.
InitAll ==
    /\ InitCatalog
    /\ c = [Kind |-> "individual",
            Spec |-> [CreationTime |-> StartNs - (3 * Millisecond) \div 2,
                      HasCpu |-> TRUE, HasMemory |-> TRUE, HasNetwork |-> TRUE,
                      HasFilesystem |-> TRUE, HasDiskIo |-> TRUE]]
    /\ stat = FullStats
    /\ now = StartNs
    /\ call = NoCall
    /\ ret = Nil

InitLabeled ==
    /\ InitCatalog
    /\ c \in {[Kind |-> k,
               Spec |-> [ZeroSpec EXCEPT !.CreationTime = StartNs - Millisecond,
                                         !.HasFilesystem = hf, !.HasDiskIo = hd]] :
                 k \in Kinds, hf \in BOOLEAN, hd \in BOOLEAN}
    /\ stat \in LabeledStats
    /\ now = StartNs
    /\ call = NoCall
    /\ ret = Nil

---------------------------------------------------------------------------
(* Actions: one per operation a caller can invoke.                         *)

\* A lookup that remembers a miss in the family table.
CallMetricFamilyForNameMemoizing(name) ==
    /\ \E order \in RangeOrders(MetricFamilies) :
           /\ ret' = MetricFamilyForName(order, name)
           /\ MetricFamilies' =
                  IF ret' = MetricFamilyGeneral
                  THEN [MetricFamilies EXCEPT
                           ![MetricFamilyCpu] =
                               Append(@, [MetricCpuRequest EXCEPT !.Name = name])]
                  ELSE MetricFamilies
    /\ call' = [op |-> "MetricFamilyForName", arg |-> name]
    /\ UNCHANGED <<StandardMetrics, AdditionalMetrics, RateMetrics, RateMetricsMapping,
                   LabeledMetrics, NodeAutoscalingMetrics, CpuMetrics, FilesystemMetrics,
                   MemoryMetrics, NetworkMetrics, AllMetrics, c, stat, now>>

CallMetricFamilyForName(name) ==
    /\ \E order \in RangeOrders(MetricFamilies) :
           ret' = MetricFamilyForName(order, name)
    /\ call' = [op |-> "MetricFamilyForName", arg |-> name]
    /\ UNCHANGED <<catalog, c, stat, now>>

CallIsNodeAutoscalingMetric(name) ==
    /\ ret' = IsNodeAutoscalingMetric(name)
    /\ call' = [op |-> "IsNodeAutoscalingMetric", arg |-> name]
    /\ UNCHANGED <<catalog, c, stat, now>>

LookupRateMetric(name) ==
    /\ ret' = RateMetricFor(name)
    /\ call' = [op |-> "RateMetricFor", arg |-> name]
    /\ UNCHANGED <<catalog, c, stat, now>>

CallHasValue(m) ==
    /\ m.HasValue /= Nil
    /\ ret' = HasValue(m, c.Spec)
    /\ call' = [op |-> "HasValue", arg |-> m.Name]
    /\ UNCHANGED <<catalog, c, stat, now>>

CallGetValue(m) ==
    /\ m.GetValue /= Nil
    /\ ret' = GetValue(m, c, stat)
    /\ call' = [op |-> "GetValue", arg |-> m.Name]
    /\ UNCHANGED <<catalog, c, stat, now>>

CallHasLabeledMetric(m) ==
    /\ m.HasLabeledMetric /= Nil
    /\ ret' = HasLabeledMetric(m, c.Spec, stat)
    /\ call' = [op |-> "HasLabeledMetric", arg |-> m.Name]
    /\ UNCHANGED <<catalog, c, stat, now>>

CallGetLabeledMetric(m) ==
    /\ m.GetLabeledMetric /= Nil
    /\ ret' = GetLabeledMetric(m, c, stat)
    /\ call' = [op |-> "GetLabeledMetric", arg |-> m.Name]
    /\ UNCHANGED <<catalog, c, stat, now>>

\* Time passes between two calls.
Tick ==
    /\ now + TickNs <= StartNs + MaxTicks * TickNs
    /\ now' = now + TickNs
    /\ UNCHANGED <<catalog, c, stat, call, ret>>

Next ==
    \E name \in LookupNames :
        \/ CallMetricFamilyForName(name)
        \/ CallIsNodeAutoscalingMetric(name)
        \/ LookupRateMetric(name)

NextScalar ==
    \/ \E m \in Range(AllMetrics) : CallHasValue(m)
    \/ \E m \in Range(AllMetrics) : CallGetValue(m)
    \/ Tick

NextLabeled ==
    \/ \E m \in Range(AllMetrics) : CallHasLabeledMetric(m)
    \/ \E m \in Range(AllMetrics) : CallGetLabeledMetric(m)

NextAll ==
    \/ \E name \in LookupNames : CallMetricFamilyForName(name)
    \/ \E name \in LookupNames : CallIsNodeAutoscalingMetric(name)
    \/ \E name \in LookupNames : LookupRateMetric(name)
    \/ \E m \in Range(AllMetrics) : CallHasValue(m)
    \/ \E m \in Range(AllMetrics) : CallGetValue(m)
    \/ \E m \in Range(AllMetrics) : CallHasLabeledMetric(m)
    \/ \E m \in Range(AllMetrics) : CallGetLabeledMetric(m)
    \/ Tick

Spec == Init /\ [][Next]_vars

SpecScalar == InitScalar /\ [][NextScalar]_vars

SpecLabeled == InitLabeled /\ [][NextLabeled]_vars

\* Calls of any operation in any order: every call only reads the catalog,
\* so the interleavings of concurrent callers are the orders of their calls.
SpecAll == InitAll /\ [][NextAll]_vars

---------------------------------------------------------------------------
(* Properties of the catalog and the lookups (specification Spec).         *)

\* C1: no two entries of AllMetrics share a name.
C1_UniqueNames ==
    \A i, j \in DOMAIN AllMetrics :
        i /= j => AllMetrics[i].Name /= AllMetrics[j].Name

\* s holds exactly the groups of gs, one after the other, each in its order.
IsConcatenation(s, gs) ==
    LET Offset(g) == SumSeq([h \in 1..(g - 1) |-> Len(gs[h])])
    IN  /\ Len(s) = SumSeq([g \in DOMAIN gs |-> Len(gs[g])])
        /\ \A g \in DOMAIN gs : \A k \in DOMAIN gs[g] : s[Offset(g) + k] = gs[g][k]

\* C2 as stated: AllMetrics is the concatenation of StandardMetrics,
\* AdditionalMetrics, RateMetrics and LabeledMetrics, with no further entries.
C2_FourGroups ==
    IsConcatenation(AllMetrics,
        <<StandardMetrics, AdditionalMetrics, RateMetrics, LabeledMetrics>>)

\* C2 amended: AllMetrics is the concatenation, in this order, of
\* StandardMetrics, AdditionalMetrics, RateMetrics, LabeledMetrics and
\* NodeAutoscalingMetrics, each group in its declaration order, with no
\* further entries.
C2_FiveGroups ==
    IsConcatenation(AllMetrics,
        <<StandardMetrics, AdditionalMetrics, RateMetrics, LabeledMetrics,
          NodeAutoscalingMetrics>>)

C2_Witness ==
    /\ Len(AllMetrics) = 43
    /\ AllMetrics[35].Name = "accelerator/duty_cycle"
    /\ AllMetrics[36].Name = "cpu/node_capacity"
    /\ call.op = "IsNodeAutoscalingMetric" /\ call.arg = AllMetrics[43].Name

\* C3: MetricFamilyForName returns the family in whose list the name stands
\* and General for a name in no list, whatever order the family table is
\* visited in; no name stands in two of the lists.
C3_FamilyForName ==
    /\ \A f, g \in DOMAIN MetricFamilies :
           f /= g => NamesOf(MetricFamilies[f]) \cap NamesOf(MetricFamilies[g]) = {}
    /\ call.op = "MetricFamilyForName" =>
           /\ call.arg \in NamesOf(CpuMetrics) => ret = "cpu"
           /\ call.arg \in NamesOf(FilesystemMetrics) => ret = "filesystem"
           /\ call.arg \in NamesOf(MemoryMetrics) => ret = "memory"
           /\ call.arg \in NamesOf(NetworkMetrics) => ret = "network"
           /\ call.arg \notin NamesOf(CpuMetrics) \cup NamesOf(FilesystemMetrics)
                  \cup NamesOf(MemoryMetrics) \cup NamesOf(NetworkMetrics)
                  => ret = "general"

C3_Witness ==
    /\ call.op = "MetricFamilyForName"
    /\ call.arg = "network/tx_rate"
    /\ ret = "network"

\* C9: every key of RateMetricsMapping resolves to a metric of RateMetrics,
\* and two different keys never resolve to rate metrics of the same name.
C9_RateMappingInjective ==
    /\ \A k \in DOMAIN RateMetricsMapping :
           RateMetricsMapping[k].Name \in NamesOf(RateMetrics)
    /\ \A k1, k2 \in DOMAIN RateMetricsMapping :
           k1 /= k2 => RateMetricsMapping[k1].Name /= RateMetricsMapping[k2].Name
    /\ call.op = "RateMetricFor" /\ call.arg \in DOMAIN RateMetricsMapping =>
           ret.ok /\ ret.metric.Name \in NamesOf(RateMetrics)

C9_Witness ==
    /\ call.op = "RateMetricFor"
    /\ call.arg = "network/tx"
    /\ ret.ok
    /\ ret.metric.Name = "network/tx_rate"

\* C10: IsNodeAutoscalingMetric(name) is true exactly for the eight names of
\* NodeAutoscalingMetrics and false for every other registered name.
C10_AutoscalingMembership ==
    /\ NamesOf(NodeAutoscalingMetrics) =
           {"cpu/node_capacity", "memory/node_capacity",
            "cpu/node_allocatable", "memory/node_allocatable",
            "cpu/node_utilization", "memory/node_utilization",
            "cpu/node_reservation", "memory/node_reservation"}
    /\ call.op = "IsNodeAutoscalingMetric" =>
           ret = (call.arg \in {"cpu/node_capacity", "memory/node_capacity",
                                "cpu/node_allocatable", "memory/node_allocatable",
                                "cpu/node_utilization", "memory/node_utilization",
                                "cpu/node_reservation", "memory/node_reservation"})

C10_Witness ==
    /\ call.op = "IsNodeAutoscalingMetric"
    /\ call.arg = "memory/node_reservation"
    /\ ret = TRUE

---------------------------------------------------------------------------
(* Properties of the scalar extractors (specification SpecScalar).         *)

GatedNames ==
    {"cpu/usage", "memory/usage", "memory/cache", "memory/rss", "memory/working_set",
     "memory/page_faults", "network/rx", "network/rx_errors", "network/tx",
     "network/tx_errors"}

\* The raw snapshot value behind a gated metric: the field itself, or the
\* plain sum of the counter over all interfaces.
RawField(name) ==
    LET ifs == stat.Network.Interfaces
        Total(field) == SumSeq([i \in DOMAIN ifs |-> ifs[i][field]])
    IN  CASE name = "cpu/usage" -> stat.Cpu.Usage.Total
          [] name = "memory/usage" -> stat.Memory.Usage
          [] name = "memory/cache" -> stat.Memory.Cache
          [] name = "memory/rss" -> stat.Memory.RSS
          [] name = "memory/working_set" -> stat.Memory.WorkingSet
          [] name = "memory/page_faults" -> stat.Memory.ContainerData.Pgfault
          [] name = "network/rx" -> Total("RxBytes")
          [] name = "network/rx_errors" -> Total("RxErrors")
          [] name = "network/tx" -> Total("TxBytes")
          [] name = "network/tx_errors" -> Total("TxErrors")

\* v is the int64 that x wraps to.
IsInt64Of(v, x) ==
    /\ v \in MinInt64..MaxInt64
    /\ (v - x) % Pow2(IntBits) = 0

\* C4: for an aggregate entity every gated scalar metric yields an Int64
\* value that is exactly 0, whatever the snapshot holds.
C4_NodeSuppression ==
    call.op = "GetValue" /\ call.arg \in GatedNames /\ c.Kind = "aggregate" =>
        ret.ValueType = "ValueInt64" /\ ret.IntValue = 0

C4_Witness ==
    /\ call.op = "GetValue" /\ call.arg = "network/rx"
    /\ c.Kind = "aggregate"
    /\ RawField("network/rx") > 0
    /\ ret.IntValue = 0

\* C5 as stated: for an individual entity every gated scalar metric yields
\* an Int64 value equal to the raw field (memory/usage as a Gauge), and 0 for
\* the same snapshot of an aggregate entity.
C5_RawValue ==
    call.op = "GetValue" /\ call.arg \in GatedNames =>
        /\ ret.ValueType = "ValueInt64"
        /\ call.arg = "memory/usage" => ret.MetricType = "MetricGauge"
        /\ ret.IntValue = IF c.Kind = "aggregate" THEN 0 ELSE RawField(call.arg)

\* C5 amended: for an individual entity every gated scalar metric yields the
\* raw field (for a network metric the sum of the counter over all
\* interfaces) converted to int64, that is reduced modulo 2^64 into the
\* int64 range, hence equal to it whenever it is below 2^63; memory/usage
\* has kind Gauge; for the same snapshot of an aggregate entity the value is 0.
C5_RawValueAsInt64 ==
    call.op = "GetValue" /\ call.arg \in GatedNames =>
        /\ ret.ValueType = "ValueInt64"
        /\ call.arg = "memory/usage" => ret.MetricType = "MetricGauge"
        /\ IF c.Kind = "aggregate" THEN ret.IntValue = 0
           ELSE /\ IsInt64Of(ret.IntValue, RawField(call.arg))
                /\ RawField(call.arg) <= MaxInt64 => ret.IntValue = RawField(call.arg)

C5_Witness ==
    /\ call.op = "GetValue" /\ call.arg = "memory/usage"
    /\ c.Kind = "individual" /\ c.Spec.HasMemory
    /\ stat.Memory.Usage = 1048576
    /\ ret = [ValueType |-> "ValueInt64", MetricType |-> "MetricGauge",
              IntValue |-> 1048576, FloatValue |-> 0]

---------------------------------------------------------------------------
(* Properties of the labeled extractors (specification SpecLabeled).       *)

\* The number of records of the snapshot that qualify for a labeled metric.
Qualifying(name) ==
    CASE name \in {"filesystem/usage", "filesystem/limit"} -> Len(stat.Filesystem)
      [] name \in {"filesystem/inodes", "filesystem/inodes_free"} ->
             Cardinality({i \in DOMAIN stat.Filesystem : stat.Filesystem[i].HasInodes})
      [] name \in {"disk/io_read_bytes", "disk/io_write_bytes"} ->
             Len(stat.DiskIo.IoServiceBytes)
      [] name \in {"accelerator/memory_total", "accelerator/memory_used",
                   "accelerator/duty_cycle"} -> Len(stat.Accelerators)

\* C6: GetLabeledMetric returns as many values as the snapshot has qualifying
\* records, and the empty sequence when it has none.
C6_LabeledCardinality ==
    call.op = "GetLabeledMetric" =>
        /\ Len(ret) = Qualifying(call.arg)
        /\ Qualifying(call.arg) = 0 => ret = <<>>

C6_Witness ==
    /\ call.op = "GetLabeledMetric" /\ call.arg = "filesystem/inodes"
    /\ Len(stat.Filesystem) = 2
    /\ Qualifying("filesystem/inodes") = 1
    /\ Len(ret) = 1

\* The decimal numerals of the device numbers of the sampled partitions.
Numeral ==
    (0 :> "0") @@ (1 :> "1") @@ (8 :> "8") @@ (16 :> "16") @@ (253 :> "253")

\* C7: the resource_id label of every disk I/O value is the device name of its
\* partition record, or "<major>:<minor>" when that name is empty.
C7_DiskResourceID ==
    call.op = "GetLabeledMetric"
        /\ call.arg \in {"disk/io_read_bytes", "disk/io_write_bytes"} =>
        /\ Len(ret) = Len(stat.DiskIo.IoServiceBytes)
        /\ \A i \in DOMAIN ret :
               LET p == stat.DiskIo.IoServiceBytes[i]
               IN  /\ DOMAIN ret[i].Labels = {"resource_id"}
                   /\ p.Device /= "" => ret[i].Labels["resource_id"] = p.Device
                   /\ p.Device = "" =>
                          ret[i].Labels["resource_id"] =
                              Numeral[p.Major] \o ":" \o Numeral[p.Minor]
                   /\ p.Device = "" /\ p.Major = 8 /\ p.Minor = 1 =>
                          ret[i].Labels["resource_id"] = "8:1"

C7_Witness ==
    /\ call.op = "GetLabeledMetric" /\ call.arg = "disk/io_write_bytes"
    /\ Len(ret) = 2
    /\ stat.DiskIo.IoServiceBytes[2].Device = ""
    /\ stat.DiskIo.IoServiceBytes[2].Major = 8
    /\ stat.DiskIo.IoServiceBytes[2].Minor = 1
    /\ ret[2].Labels["resource_id"] = "8:1"
    /\ stat.DiskIo.IoServiceBytes[1].Device = "sda"
    /\ ret[1].Labels["resource_id"] = "sda"

\* The counter a disk I/O metric reads from a partition record, 0 when the
\* operation map has no such key.
Counter(name, p) ==
    LET key == IF name = "disk/io_read_bytes" THEN "Read" ELSE "Write"
    IN  IF key \in DOMAIN p.Stats THEN p.Stats[key] ELSE 0

\* C8 as stated: disk/io_read_bytes yields the value under "Read" and
\* disk/io_write_bytes the value under "Write", 0 when the key is absent, and
\* a value is emitted for every record.
C8_OperationValue ==
    call.op = "GetLabeledMetric"
        /\ call.arg \in {"disk/io_read_bytes", "disk/io_write_bytes"} =>
        /\ Len(ret) = Len(stat.DiskIo.IoServiceBytes)
        /\ \A i \in DOMAIN ret :
               ret[i].MetricValue.IntValue =
                   Counter(call.arg, stat.DiskIo.IoServiceBytes[i])

\* C8 amended: disk/io_read_bytes yields the value under "Read" and
\* disk/io_write_bytes the value under "Write", converted to int64 (reduced
\* modulo 2^64 into the int64 range, hence the value itself whenever it is
\* below 2^63); when the key is absent the value is 0 and a LabeledMetric is
\* still emitted for that record.
C8_OperationValueAsInt64 ==
    call.op = "GetLabeledMetric"
        /\ call.arg \in {"disk/io_read_bytes", "disk/io_write_bytes"} =>
        /\ Len(ret) = Len(stat.DiskIo.IoServiceBytes)
        /\ \A i \in DOMAIN ret :
               LET v == Counter(call.arg, stat.DiskIo.IoServiceBytes[i])
               IN  /\ IsInt64Of(ret[i].MetricValue.IntValue, v)
                   /\ v <= MaxInt64 => ret[i].MetricValue.IntValue = v

C8_Witness ==
    /\ call.op = "GetLabeledMetric" /\ call.arg = "disk/io_read_bytes"
    /\ Len(ret) = 1
    /\ DOMAIN stat.DiskIo.IoServiceBytes[1].Stats = {"Write"}
    /\ stat.DiskIo.IoServiceBytes[1].Stats["Write"] = 500
    /\ ret[1].MetricValue.IntValue = 0

---------------------------------------------------------------------------
(* Properties of all operations together (specification SpecAll).          *)

\* C11: after any sequence of extraction and lookup calls every catalog list
\* and mapping equals its value at initialization.
C11_CatalogUnchanged ==
    /\ StandardMetrics = StandardMetricsDecl
    /\ AdditionalMetrics = AdditionalMetricsDecl
    /\ RateMetrics = RateMetricsDecl
    /\ RateMetricsMapping = RateMetricsMappingDecl
    /\ LabeledMetrics = LabeledMetricsDecl
    /\ NodeAutoscalingMetrics = NodeAutoscalingMetricsDecl
    /\ CpuMetrics = CpuMetricsDecl
    /\ FilesystemMetrics = FilesystemMetricsDecl
    /\ MemoryMetrics = MemoryMetricsDecl
    /\ NetworkMetrics = NetworkMetricsDecl
    /\ MetricFamilies = MetricFamiliesDecl
    /\ AllMetrics = AllMetricsDecl

C11_Witness ==
    /\ call.op = "MetricFamilyForName" /\ call.arg = "custom/requests"
    /\ ret = "general"
    /\ now > StartNs
    /\ DOMAIN MetricFamilies = {"cpu", "filesystem", "memory", "network"}
    /\ Len(MetricFamilies["cpu"]) = 8


\* C12 as stated: every extraction and lookup operation is a pure function of
\* its inputs, uptime's GetValue included: a call repeated on the same inputs,
\* whenever it is made, returns the result it returned before.  (The entity and
\* the snapshot never change in a behaviour, so equal calls have equal inputs.)
C12_PureFunction == [][call' = call => ret' = ret]_vars

IsUptimeGetValue(cl) == cl.op = "GetValue" /\ cl.arg = MetricUptime.Name

\* C12, amended: every operation but GetValue of uptime is a pure function of
\* its inputs: such a call, repeated on the same inputs at any later time,
\* returns the result it returned before.  GetValue of uptime reads the clock.
C12_PureExceptUptime ==
    [][(call' = call /\ ~IsUptimeGetValue(call)) => ret' = ret]_vars

C12_Witness ==
    /\ now > StartNs
    /\ call.op = "GetValue" /\ call.arg = "memory/usage"
    /\ ret = GetValue(MetricMemoryUsage, c, stat)
    /\ ret.IntValue = 12


\* The metrics the catalog holds now, and the ones defined outside every list.
CatalogMetrics ==
    Range(AllMetrics) \cup Range(StandardMetrics) \cup Range(AdditionalMetrics)
    \cup Range(RateMetrics) \cup Range(LabeledMetrics) \cup Range(NodeAutoscalingMetrics)
    \cup Range(CpuMetrics) \cup Range(FilesystemMetrics) \cup Range(MemoryMetrics)
    \cup Range(NetworkMetrics)
    \cup UNION {Range(MetricFamilies[f]) : f \in DOMAIN MetricFamilies}
    \cup {RateMetricsMapping[k] : k \in DOMAIN RateMetricsMapping}
    \cup DefinedMetrics

HasScalarPair(m) == m.HasValue /= Nil /\ m.GetValue /= Nil
HasLabeledPair(m) == m.HasLabeledMetric /= Nil /\ m.GetLabeledMetric /= Nil
HasNoScalarFunc(m) == m.HasValue = Nil /\ m.GetValue = Nil
HasNoLabeledFunc(m) == m.HasLabeledMetric = Nil /\ m.GetLabeledMetric = Nil

\* C13: every metric of the catalog uses exactly one predicate/extractor pair
\* or neither: each pair is fully present or fully absent, never both pairs,
\* and every metric of RateMetrics has neither.
C13_OnePairOrNeither ==
    /\ \A m \in CatalogMetrics :
           \/ HasScalarPair(m) /\ HasNoLabeledFunc(m)
           \/ HasLabeledPair(m) /\ HasNoScalarFunc(m)
           \/ HasNoScalarFunc(m) /\ HasNoLabeledFunc(m)
    /\ \A m \in Range(RateMetrics) : HasNoScalarFunc(m) /\ HasNoLabeledFunc(m)

C13_Witness ==
    /\ call.op = "GetLabeledMetric" /\ call.arg = "filesystem/usage"
    /\ Len(ret) = 2
    /\ \E m \in Range(AllMetrics) : HasScalarPair(m) /\ HasNoLabeledFunc(m)
    /\ \E m \in Range(AllMetrics) :
           m.Name = call.arg /\ HasLabeledPair(m) /\ HasNoScalarFunc(m)
    /\ \E m \in Range(RateMetrics) : m.Name = "disk/io_read_bytes_rate"
    /\ MetricNodeAcceleratorCapacity \in CatalogMetrics \ Range(AllMetrics)

---------------------------------------------------------------------------
(* Further properties of the labeled extractors (specification SpecLabeled). *)

AcceleratorNames ==
    {MetricAcceleratorMemoryTotal.Name, MetricAcceleratorMemoryUsed.Name,
     MetricAcceleratorDutyCycle.Name}

\* C14: for each accelerator metric HasLabeledMetric is true exactly when the
\* snapshot holds at least one accelerator record, whatever the capability
\* flags, and each emitted LabeledMetric carries the make, model and device id
\* labels of its record.
C14_AcceleratorMetrics ==
    /\ (call.op = "HasLabeledMetric" /\ call.arg \in AcceleratorNames)
           => (ret = TRUE <=> Len(stat.Accelerators) >= 1)
    /\ (call.op = "GetLabeledMetric" /\ call.arg \in AcceleratorNames)
           => /\ DOMAIN ret = DOMAIN stat.Accelerators
              /\ \A i \in DOMAIN ret :
                     /\ DOMAIN ret[i].Labels = {"make", "model", "device id"}
                     /\ ret[i].Labels["make"] = stat.Accelerators[i].Make
                     /\ ret[i].Labels["model"] = stat.Accelerators[i].Model
                     /\ ret[i].Labels["device id"] = stat.Accelerators[i].ID

C14_Witness ==
    /\ call.op = "HasLabeledMetric" /\ call.arg = "accelerator/duty_cycle"
    /\ ret = TRUE
    /\ ~c.Spec.HasCpu /\ ~c.Spec.HasMemory /\ ~c.Spec.HasNetwork
    /\ ~c.Spec.HasFilesystem /\ ~c.Spec.HasDiskIo
    /\ Len(stat.Accelerators) = 2
    /\ stat.Accelerators[2].ID = "GPU-1"

---------------------------------------------------------------------------
(* Further properties of the scalar extractors (specification SpecScalar).  *)

MemoryScalarNames ==
    {"memory/usage", "memory/cache", "memory/rss", "memory/working_set",
     "memory/page_faults", "memory/major_page_faults"}

NetworkScalarNames == {"network/rx", "network/rx_errors", "network/tx", "network/tx_errors"}

\* The declared capability a scalar metric's predicate is said to report.
Capability(name, spec) ==
    CASE name = "uptime" -> spec.CreationTime /= ZeroTime
      [] name = "cpu/usage" -> spec.HasCpu
      [] name \in MemoryScalarNames -> spec.HasMemory
      [] name \in NetworkScalarNames -> spec.HasNetwork

ScalarNames == {m.Name : m \in {x \in Range(AllMetrics) : x.HasValue /= Nil}}

\* C15: HasValue of a scalar metric equals the declared capability (has-CPU
\* for cpu/usage, has-memory for memory/*, has-network for network/*, creation
\* timestamp non-zero for uptime) whatever the entity kind and the snapshot;
\* so for an aggregate entity whose flag is true HasValue is true while
\* GetValue returns 0.
C15_HasValueIsCapability ==
    /\ ScalarNames = {"uptime", "cpu/usage"} \cup MemoryScalarNames \cup NetworkScalarNames
    /\ call.op = "HasValue" => ret = Capability(call.arg, c.Spec)
    /\ (/\ call.op = "GetValue"
        /\ call.arg /= "uptime"
        /\ c.Kind = "aggregate"
        /\ Capability(call.arg, c.Spec))
           => /\ ret.IntValue = 0
              /\ \A m \in Range(AllMetrics) :
                     m.Name = call.arg => HasValue(m, c.Spec) = TRUE

C15_Witness ==
    /\ call.op = "HasValue" /\ call.arg = "memory/major_page_faults"
    /\ ret = TRUE
    /\ c.Kind = "aggregate"
    /\ c.Spec.HasMemory /\ ~c.Spec.HasCpu /\ ~c.Spec.HasNetwork
    /\ stat.Memory.ContainerData.Pgmajfault > 0
    /\ GetValue(MetricMemoryMajorPageFaults, c, stat).IntValue = 0


\* C16: every value an extractor emits carries the kind and the value type its
\* metric's descriptor declares, and every emitted LabeledMetric the
\* descriptor's name.
C16_EmittedAsDeclared ==
    \A m \in Range(AllMetrics) :
        /\ (call.op = "GetValue" /\ call.arg = m.Name)
               => /\ ret.MetricType = m.Type
                  /\ ret.ValueType = m.ValueType
        /\ (call.op = "GetLabeledMetric" /\ call.arg = m.Name)
               => \A i \in DOMAIN ret :
                      /\ ret[i].Name = m.Name
                      /\ ret[i].MetricValue.MetricType = m.Type
                      /\ ret[i].MetricValue.ValueType = m.ValueType

====
